---------------------------- MODULE Spec2Model ----------------------------
(***************************************************************************)
(* Model of zebra-consensus/src/block/check.rs: the block consensus check  *)
(* functions coinbase_is_first, time_is_valid_at and subsidy_is_correct.   *)
(*                                                                         *)
(* Each check is a pure function of its arguments.  A specification draws  *)
(* the arguments in Init and has one action per check, which stores the    *)
(* value the call produces.  A Rust Result is modelled by the name of the  *)
(* error ("Ok" for Ok(())), a panic by a "panic: ..." name.                *)
(*                                                                         *)
(* zebra_chain (Block, Transaction, Header) and the subsidy module are not *)
(* part of the file; their accessors are modelled from their contract.     *)
(* The collaborator results halving_divisor(height, network) and           *)
(* founders_reward(height, network) are inputs of the model: any u64 up    *)
(* to MaxHalvingDiv and any Amount up to MaxAmount.                        *)
(***************************************************************************)
EXTENDS Integers, Sequences, FiniteSets

VARIABLES
    block,              \* the &Block argument: a sequence of transactions
    network,            \* the Network argument of subsidy_is_correct
    halvingDivisorRet,  \* what subsidy::general::halving_divisor returns
    foundersRewardRet,  \* what subsidy::founders_reward::founders_reward returns
    coinbaseResult,     \* value of the last coinbase_is_first(block) call
    subsidyResult,      \* value of the last subsidy_is_correct(network, block) call
    header_time,        \* header.time, in seconds
    now,                \* the node's local clock, in seconds
    evalNow,            \* the `now` argument of the last time_is_valid_at call
    timeResult          \* value of the last time_is_valid_at(header, now) call

vars == <<block, network, halvingDivisorRet, foundersRewardRet, coinbaseResult,
          subsidyResult, header_time, now, evalNow, timeResult>>

structVars  == <<block, coinbaseResult>>
subsidyVars == <<network, halvingDivisorRet, foundersRewardRet, subsidyResult>>
timeVars    == <<header_time, now, evalNow, timeResult>>

-----------------------------------------------------------------------------
(* Bounds of the model *)

MaxTxs == 3           \* transactions in a block
MaxInputs == 2        \* transparent inputs of a transaction
MaxOutputs == 2       \* outputs of the coinbase transaction
MaxAmount == 1        \* output values and founders reward values
MaxHalvingDiv == 8    \* values returned by halving_divisor
HeightSlack == 1      \* heights tried on each side of an era boundary
MaxNow == 5           \* seconds the local clock advances

-----------------------------------------------------------------------------
(* Protocol parameters *)

Networks == {"Mainnet", "Testnet"}

SLOW_START_INTERVAL == 20000

CanopyActivationHeight(net) ==
    IF net = "Mainnet" THEN 1046400 ELSE 1028500

TWO_HOURS == 2 * 60 * 60

Pending == "Pending"

PanicUnsupportedHeight == "panic: unsupported block height"
PanicHalvingDivisor    == "panic: invalid halving divisor"
PanicUnimplemented     == "panic: funding stream block subsidy validation is not implemented"

Panics == {PanicUnsupportedHeight, PanicHalvingDivisor, PanicUnimplemented}

SubsidyErrors == {"NoCoinbase", "FoundersRewardNotFound", "FundingStreamNotImplemented"}

-----------------------------------------------------------------------------
(* Transactions and blocks *)

RECURSIVE SeqsUpTo(_, _)
SeqsUpTo(S, n) ==
    IF n = 0 THEN {<<>>}
    ELSE LET shorter == SeqsUpTo(S, n - 1)
         IN  shorter \cup {Append(s, x) : s \in {t \in shorter : Len(t) = n - 1}, x \in S}

\* An Option<Height> is the empty set (None) or a singleton (Some(h)).
PrevOut == [kind |-> "PrevOut", height |-> {}]
Coinbase(h) == [kind |-> "Coinbase", height |-> h]

\* Transaction::is_coinbase: exactly one input, and it is a coinbase input.
is_coinbase(tx) ==
    /\ Len(tx.inputs) = 1
    /\ tx.inputs[1].kind = "Coinbase"

\* Transaction::contains_coinbase_input: some input is a coinbase input.
contains_coinbase_input(tx) ==
    \E i \in 1..Len(tx.inputs) : tx.inputs[i].kind = "Coinbase"

\* Block::coinbase_height: the height encoded in the coinbase transaction.
coinbase_height(b) ==
    IF Len(b) = 0 THEN {}
    ELSE IF ~is_coinbase(b[1]) THEN {}
    ELSE b[1].inputs[1].height

\* subsidy::general::find_output_with_amount: the outputs of the transaction
\* whose value is the amount, in order.
find_output_with_amount(tx, amount) ==
    SelectSeq(tx.outputs, LAMBDA o : o.value = amount)

\* u64::count_ones
RECURSIVE count_ones(_)
count_ones(n) ==
    IF n = 0 THEN 0 ELSE (n % 2) + count_ones(n \div 2)

\* subsidy::general::halving_divisor: a u64 chosen by the collaborator.
halving_divisor(height, net) == halvingDivisorRet

\* subsidy::founders_reward::founders_reward: a valid Amount chosen by the
\* collaborator (the caller's expect never fires).
founders_reward(height, net) == foundersRewardRet

\* Header::is_time_valid_at: header.time is at most two hours after now.
is_time_valid_at(time, t) ==
    IF time <= t + TWO_HOURS THEN "Ok" ELSE "FutureTimeLimitExceeded"

-----------------------------------------------------------------------------
(* The check functions of check.rs *)

\* Variant: only the transaction right after the coinbase is scanned.
coinbase_is_first_only_next(b) ==
    IF Len(b) = 0 THEN "NoTransactions"
    ELSE IF ~is_coinbase(b[1]) THEN "CoinbasePosition"
    ELSE IF Len(b) >= 2 /\ contains_coinbase_input(b[2]) THEN "CoinbaseInputFound"
    ELSE "Ok"

\* Variant: the input scan runs before the position check.
coinbase_is_first_scan_first(b) ==
    IF Len(b) = 0 THEN "NoTransactions"
    ELSE IF \E i \in 2..Len(b) : contains_coinbase_input(b[i]) THEN "CoinbaseInputFound"
    ELSE IF ~is_coinbase(b[1]) THEN "CoinbasePosition"
    ELSE "Ok"

\* Variant: the scan skips one transaction too many.
coinbase_is_first_skip_two(b) ==
    IF Len(b) = 0 THEN "NoTransactions"
    ELSE IF ~is_coinbase(b[1]) THEN "CoinbasePosition"
    ELSE IF \E i \in 3..Len(b) : contains_coinbase_input(b[i]) THEN "CoinbaseInputFound"
    ELSE "Ok"

coinbase_is_first(b) ==
    IF Len(b) = 0 THEN "NoTransactions"
    ELSE IF ~is_coinbase(b[1]) THEN "CoinbasePosition"
    ELSE IF \E i \in 2..Len(b) : contains_coinbase_input(b[i]) THEN "CoinbaseInputFound"
    ELSE "Ok"

\* Variant: the boundary is exclusive.
time_is_valid_at_strict(time, t) ==
    IF time < t + TWO_HOURS THEN "Ok" ELSE "FutureTimeLimitExceeded"

\* Variant: the tolerance is subtracted from the clock instead of added.
time_is_valid_at_past(time, t) ==
    IF time <= t - TWO_HOURS THEN "Ok" ELSE "FutureTimeLimitExceeded"

time_is_valid_at(time, t) ==
    is_time_valid_at(time, t)

\* The body of subsidy_is_correct after the coinbase height is known, with
\* the tests that vary between the variants below as parameters:
\*   divisorOk(d)   the halving divisor passes the power-of-two test
\*   rewardPaid(m)  the matching outputs m satisfy the founders reward rule
\*   lastBound      the halving divisor from which no payout is required
SubsidyVariant(net, b, height, divisorOk(_), rewardPaid(_), lastBound) ==
    LET coinbase == b[1]
        halving_div == halving_divisor(height, net)
        canopy_activation_height == CanopyActivationHeight(net)
    IN  IF height < SLOW_START_INTERVAL THEN PanicUnsupportedHeight
        ELSE IF ~divisorOk(halving_div) THEN PanicHalvingDivisor
        ELSE IF height < canopy_activation_height THEN
            IF rewardPaid(find_output_with_amount(coinbase, founders_reward(height, net)))
            THEN "Ok" ELSE "FoundersRewardNotFound"
        ELSE IF halving_div < lastBound THEN PanicUnimplemented
        ELSE "Ok"

\* Variant: the founders reward must be paid by exactly one output.
subsidy_is_correct_single_output(net, b) ==
    IF coinbase_height(b) = {} THEN "NoCoinbase"
    ELSE SubsidyVariant(net, b, CHOOSE h \in coinbase_height(b) : TRUE,
                        LAMBDA d : count_ones(d) = 1, LAMBDA m : Len(m) = 1, 4)

\* Variant: the funding stream era extends to a halving divisor of 4.
subsidy_is_correct_le_four(net, b) ==
    IF coinbase_height(b) = {} THEN "NoCoinbase"
    ELSE SubsidyVariant(net, b, CHOOSE h \in coinbase_height(b) : TRUE,
                        LAMBDA d : count_ones(d) = 1, LAMBDA m : m # <<>>, 5)

\* Variant: the power-of-two test lets a zero divisor through.
subsidy_is_correct_zero_divisor(net, b) ==
    IF coinbase_height(b) = {} THEN "NoCoinbase"
    ELSE SubsidyVariant(net, b, CHOOSE h \in coinbase_height(b) : TRUE,
                        LAMBDA d : count_ones(d) <= 1, LAMBDA m : m # <<>>, 4)

\* Variant: a missing coinbase height is read as height 0.
subsidy_is_correct_default_height(net, b) ==
    IF Len(b) = 0 THEN "NoCoinbase"
    ELSE SubsidyVariant(net, b,
                        IF coinbase_height(b) = {} THEN 0
                        ELSE CHOOSE h \in coinbase_height(b) : TRUE,
                        LAMBDA d : count_ones(d) = 1, LAMBDA m : m # <<>>, 4)

subsidy_is_correct(net, b) ==
    IF coinbase_height(b) = {} THEN "NoCoinbase"
    ELSE IF Len(b) = 0 THEN "NoCoinbase"
    ELSE
        LET height == CHOOSE h \in coinbase_height(b) : TRUE
            coinbase == b[1]
            halving_div == halving_divisor(height, net)
            canopy_activation_height == CanopyActivationHeight(net)
        IN  IF height < SLOW_START_INTERVAL THEN PanicUnsupportedHeight
            ELSE IF count_ones(halving_div) # 1 THEN PanicHalvingDivisor
            ELSE IF height < canopy_activation_height THEN
                LET reward == founders_reward(height, net)
                    matching_values == find_output_with_amount(coinbase, reward)
                IN  IF matching_values # <<>> THEN "Ok"
                    ELSE "FoundersRewardNotFound"
            ELSE IF halving_div < 4 THEN PanicUnimplemented
            ELSE "Ok"

-----------------------------------------------------------------------------
(* Inputs *)

Heights ==
    {0} \cup UNION {(c - HeightSlack)..(c + HeightSlack) :
                        c \in {SLOW_START_INTERVAL} \cup {CanopyActivationHeight(n) : n \in Networks}}

HeightOpts == {{}} \cup {{h} : h \in Heights}

Amounts == 0..MaxAmount

HalvingDivs == 0..MaxHalvingDiv

Dests == {"founders", "miner"}

Outputs == [value : Amounts, dest : Dests]

\* Transactions that differ in the shape of their inputs only.
StructTxs ==
    {[inputs |-> i, outputs |-> <<>>] :
        i \in SeqsUpTo({PrevOut, Coinbase({SLOW_START_INTERVAL})}, MaxInputs)}

StructBlocks == SeqsUpTo(StructTxs, MaxTxs)

\* First transactions for the subsidy check: every input shape, every
\* encoded height on a single coinbase input, every list of outputs.
SubsidyInputs ==
    {<<Coinbase(o)>> : o \in HeightOpts}
        \cup SeqsUpTo({PrevOut, Coinbase({SLOW_START_INTERVAL})}, MaxInputs)

SubsidyTxs ==
    {[inputs |-> i, outputs |-> o] :
        i \in SubsidyInputs, o \in SeqsUpTo(Outputs, MaxOutputs)}

SubsidyBlocks == {<<>>} \cup {<<tx>> : tx \in SubsidyTxs}

HeaderTimes == ((0 - MaxNow)..MaxNow) \cup ((TWO_HOURS - 1)..(TWO_HOURS + MaxNow))

EmptyBlock == <<>>

-----------------------------------------------------------------------------
(* Specification of the coinbase structure check *)

InitStruct ==
    /\ block \in StructBlocks
    /\ coinbaseResult = Pending
    /\ network = "Mainnet" /\ halvingDivisorRet = 1 /\ foundersRewardRet = 0
    /\ subsidyResult = Pending
    /\ header_time = 0 /\ now = 0 /\ evalNow = 0 /\ timeResult = Pending

CheckCoinbase ==
    /\ coinbaseResult' = coinbase_is_first(block)
    /\ UNCHANGED <<block, subsidyVars, timeVars>>

NextStruct == CheckCoinbase

SpecStruct == InitStruct /\ [][NextStruct]_vars

(* Specification of the subsidy check *)

InitSubsidy ==
    /\ block \in SubsidyBlocks
    /\ network \in Networks
    /\ halvingDivisorRet \in HalvingDivs
    /\ foundersRewardRet \in Amounts
    /\ subsidyResult = Pending
    /\ coinbaseResult = Pending
    /\ header_time = 0 /\ now = 0 /\ evalNow = 0 /\ timeResult = Pending

CheckSubsidy ==
    /\ subsidyResult' = subsidy_is_correct(network, block)
    /\ UNCHANGED <<block, network, halvingDivisorRet, foundersRewardRet,
                   coinbaseResult, timeVars>>

NextSubsidy == CheckSubsidy

SpecSubsidy == InitSubsidy /\ [][NextSubsidy]_vars

(* Specification of the timestamp check, with a clock that only advances *)

InitTime ==
    /\ header_time \in HeaderTimes
    /\ now = 0
    /\ evalNow = 0
    /\ timeResult = Pending
    /\ block = EmptyBlock /\ coinbaseResult = Pending
    /\ network = "Mainnet" /\ halvingDivisorRet = 1 /\ foundersRewardRet = 0
    /\ subsidyResult = Pending

CheckTime ==
    /\ timeResult' = time_is_valid_at(header_time, now)
    /\ evalNow' = now
    /\ UNCHANGED <<header_time, now, structVars, subsidyVars>>

Tick ==
    /\ now < MaxNow
    /\ now' = now + 1
    /\ UNCHANGED <<header_time, evalNow, timeResult, structVars, subsidyVars>>

NextTime == CheckTime \/ Tick

SpecTime == InitTime /\ [][NextTime]_vars

\* The clock keeps advancing and the caller keeps re-evaluating the header.
LiveSpecTime == SpecTime /\ WF_vars(Tick) /\ WF_vars(CheckTime)

-----------------------------------------------------------------------------
(* Vocabulary of the properties *)

\* n is a non-zero power of two that fits a u64.
RECURSIVE PowerOfTwo(_)
PowerOfTwo(n) ==
    /\ n > 0
    /\ n = 1 \/ (n % 2 = 0 /\ PowerOfTwo(n \div 2))

\* The block has a coinbase transaction with an encoded height.
HeightDerivable(b) ==
    /\ Len(b) > 0
    /\ is_coinbase(b[1])
    /\ b[1].inputs[1].height # {}

HeightOf(b) == CHOOSE h \in b[1].inputs[1].height : TRUE

\* Some output of the first transaction pays exactly the amount.
PaysAmount(b, amount) ==
    \E i \in 1..Len(b[1].outputs) : b[1].outputs[i].value = amount

\* Some transaction after the first contains a coinbase input.
LaterCoinbaseInput(b) ==
    \E i \in 2..Len(b) : contains_coinbase_input(b[i])

SubsidyDone == subsidyResult # Pending

-----------------------------------------------------------------------------
(* Properties of subsidy_is_correct *)

\* C1: in the funding stream era (derivable height >= slow start interval,
\* height >= Canopy activation, power-of-two halving divisor < 4) the call
\* returns the error FundingStreamNotImplemented: never success, never a panic.
C1_FundingStreamIsError ==
    (/\ SubsidyDone
     /\ HeightDerivable(block)
     /\ HeightOf(block) >= SLOW_START_INTERVAL
     /\ HeightOf(block) >= CanopyActivationHeight(network)
     /\ PowerOfTwo(halvingDivisorRet)
     /\ halvingDivisorRet < 4)
        => subsidyResult = "FundingStreamNotImplemented"

\* C5: in the founders reward era (slow start interval <= height < Canopy
\* activation) and for any power-of-two halving divisor, the call succeeds
\* iff some coinbase output pays exactly the founders reward, and fails with
\* FoundersRewardNotFound otherwise.
C5_FoundersReward ==
    (/\ SubsidyDone
     /\ HeightDerivable(block)
     /\ HeightOf(block) >= SLOW_START_INTERVAL
     /\ HeightOf(block) < CanopyActivationHeight(network)
     /\ PowerOfTwo(halvingDivisorRet))
        => /\ subsidyResult = "Ok" <=> PaysAmount(block, foundersRewardRet)
           /\ subsidyResult # "Ok" => subsidyResult = "FoundersRewardNotFound"

\* C5 witness: a founders reward era block whose collaborator reports a
\* halving divisor >= 4 and whose coinbase pays the reward twice, to two
\* destinations, is accepted.
C5_Witness ==
    /\ subsidyResult = "Ok"
    /\ HeightDerivable(block)
    /\ HeightOf(block) >= SLOW_START_INTERVAL
    /\ HeightOf(block) < CanopyActivationHeight(network)
    /\ halvingDivisorRet >= 4
    /\ Len(block[1].outputs) = 2
    /\ block[1].outputs[1].value = foundersRewardRet
    /\ block[1].outputs[2].value = foundersRewardRet
    /\ block[1].outputs[1].dest # block[1].outputs[2].dest

C7_InvariantViolationsPanic ==
    (SubsidyDone /\ HeightDerivable(block))
        => /\ HeightOf(block) < SLOW_START_INTERVAL
                => subsidyResult = PanicUnsupportedHeight
           /\ (HeightOf(block) >= SLOW_START_INTERVAL /\ ~PowerOfTwo(halvingDivisorRet))
                => subsidyResult = PanicHalvingDivisor

\* C7 witness: a zero halving divisor at a supported height panics.
C7_Witness ==
    /\ subsidyResult = PanicHalvingDivisor
    /\ HeightDerivable(block)
    /\ HeightOf(block) >= SLOW_START_INTERVAL
    /\ halvingDivisorRet = 0

\* C8: a block from which no coinbase height can be derived (empty, first
\* transaction not a coinbase, coinbase without encoded height) yields
\* NoCoinbase, before any other step: no panic, no success, no other error.
C8_NoCoinbaseFirst ==
    (SubsidyDone /\ ~HeightDerivable(block)) => subsidyResult = "NoCoinbase"

\* C8 witness: a coinbase without encoded height and a collaborator that
\* would report an invalid halving divisor still yield NoCoinbase.
C8_Witness ==
    /\ subsidyResult = "NoCoinbase"
    /\ Len(block) > 0
    /\ is_coinbase(block[1])
    /\ ~PowerOfTwo(halvingDivisorRet)

-----------------------------------------------------------------------------
(* Properties of coinbase_is_first *)

\* C2: the call succeeds iff the block is non-empty, its first transaction
\* is a coinbase and no later transaction contains a coinbase input; with a
\* coinbase first, the result is CoinbaseInputFound exactly when some later
\* transaction contains a coinbase input, wherever it sits.
C2_CoinbaseIsFirst ==
    coinbaseResult # Pending
        => /\ coinbaseResult = "Ok"
                <=> (Len(block) > 0 /\ is_coinbase(block[1]) /\ ~LaterCoinbaseInput(block))
           /\ (Len(block) > 0 /\ is_coinbase(block[1]))
                => (coinbaseResult = "CoinbaseInputFound" <=> LaterCoinbaseInput(block))

\* C2 witness: the only coinbase input after the first transaction sits in
\* the third transaction, and the block is rejected with CoinbaseInputFound.
C2_Witness ==
    /\ coinbaseResult = "CoinbaseInputFound"
    /\ Len(block) = 3
    /\ is_coinbase(block[1])
    /\ ~contains_coinbase_input(block[2])
    /\ contains_coinbase_input(block[3])

\* C3: checks run in the order emptiness, position, input scan: an empty
\* block yields NoTransactions, and a non-empty block whose first
\* transaction is not a coinbase yields CoinbasePosition even when later
\* transactions contain coinbase inputs.
C3_CheckOrder ==
    coinbaseResult # Pending
        => /\ Len(block) = 0 => coinbaseResult = "NoTransactions"
           /\ (Len(block) > 0 /\ ~is_coinbase(block[1]))
                => coinbaseResult = "CoinbasePosition"

\* C3 witness: first transaction not a coinbase, a later one with a coinbase
\* input, result CoinbasePosition.
C3_Witness ==
    /\ coinbaseResult = "CoinbasePosition"
    /\ Len(block) > 1
    /\ LaterCoinbaseInput(block)

\* C9: an accepted block has exactly one coinbase transaction, at position 0.
C9_UniqueCoinbase ==
    coinbaseResult = "Ok"
        => /\ is_coinbase(block[1])
           /\ Cardinality({i \in 1..Len(block) : is_coinbase(block[i])}) = 1

\* C9 witness: an accepted block with three transactions.
C9_Witness ==
    /\ coinbaseResult = "Ok"
    /\ Len(block) = 3
    /\ Len(block[2].inputs) > 0
    /\ Len(block[3].inputs) > 0

-----------------------------------------------------------------------------
(* Properties of time_is_valid_at *)

\* C4: the call succeeds iff header.time <= now + 2 hours, and its only
\* error is FutureTimeLimitExceeded; there is no lower bound on header.time.
C4_TwoHourRule ==
    timeResult # Pending
        => /\ timeResult = "Ok" <=> header_time <= evalNow + 7200
           /\ timeResult # "Ok" => timeResult = "FutureTimeLimitExceeded"
           /\ header_time <= evalNow => timeResult = "Ok"

\* C4 witness: one second past the two hour tolerance is rejected.
C4_Witness ==
    /\ timeResult = "FutureTimeLimitExceeded"
    /\ header_time = evalNow + 7200 + 1

\* C10: with a clock that only advances, an accepted header stays accepted
\* at every later evaluation, every evaluation at now >= header.time - 2
\* hours accepts, and every header is eventually accepted for good.
C10_AcceptedLater ==
    /\ [][timeResult = "Ok" => timeResult' = "Ok"]_vars
    /\ []((timeResult # Pending /\ evalNow >= header_time - 7200) => timeResult = "Ok")
    /\ <>[](timeResult = "Ok")

\* C10 witness: a header that was too far in the future when the clock
\* started is accepted at a later evaluation.
C10_Witness ==
    /\ timeResult = "Ok"
    /\ header_time > 7200
    /\ evalNow > 0

=============================================================================
